---- MODULE Spec2Model ----
(***************************************************************************)
(* Model of src/recipe_routes.rs: the six actix-web handlers of            *)
(* RecipeRoutes, the two free validation functions they share, and the     *)
(* Dao / Pagination collaborators they call.                               *)
(*                                                                         *)
(* Rust's Option<T> is written as a sequence of length at most one:        *)
(* None is << >> and Some(x) is << x >>.  A String is a sequence of        *)
(* one-character strings.                                                  *)
(***************************************************************************)
EXTENDS Integers, Sequences, FiniteSets, Bags, TLC

\* inflight: the bag of requests whose handler has begun and whose response
\*   the transport has not yet sent.
\* db: the recipe collection behind the Dao, identifier to Option<Recipe>.
VARIABLES inflight, db

vars == <<inflight, db>>

None == << >>

Some(x) == << x >>

Range(s) == {s[i] : i \in 1..Len(s)}

Str(c, n) == [i \in 1..n |-> c]

----------------------------------------------------------------------------
(* Bounds of the model.                                                    *)

\* Requests that may be in flight (begun, response not yet discarded) at once.
MaxReq == 2

\* Longest `id` path segment tried against the identifier validation.
MaxIdLen == 25

----------------------------------------------------------------------------
(* is_valid_object_id: ObjectId::with_string(id) is Ok.  The bson crate    *)
(* hex-decodes the string and requires the decoded length to be 12 bytes.  *)

OID_BYTES == 12

DecDigits == <<"0", "1", "2", "3", "4", "5", "6", "7", "8", "9">>

LowerHex == <<"a", "b", "c", "d", "e", "f">>

UpperHex == <<"A", "B", "C", "D", "E", "F">>

IndexOf(s, c) == CHOOSE i \in 1..Len(s) : s[i] = c

HexChars == Range(DecDigits) \cup Range(LowerHex) \cup Range(UpperHex)

HexTable ==
  [c \in HexChars |->
     IF c \in Range(DecDigits) THEN IndexOf(DecDigits, c) - 1
     ELSE IF c \in Range(LowerHex) THEN IndexOf(LowerHex, c) + 9
     ELSE IndexOf(UpperHex, c) + 9]

\* hex::decode's per-character value; -1 stands for InvalidHexCharacter.
hex_val(c) == IF c \in HexChars THEN HexTable[c] ELSE -1

\* hex::decode: Err on an odd length or on any non-hex character, otherwise
\* the bytes, two characters each.
hex_decode(s) ==
  IF Len(s) % 2 # 0 THEN [ok |-> FALSE, bytes |-> << >>]
  ELSE IF \E i \in 1..Len(s) : hex_val(s[i]) = -1 THEN [ok |-> FALSE, bytes |-> << >>]
  ELSE [ok |-> TRUE,
        bytes |-> [i \in 1..(Len(s) \div 2) |->
                     16 * hex_val(s[2 * i - 1]) + hex_val(s[2 * i])]]

ObjectId_with_string(s) ==
  LET d == hex_decode(s)
  IN  IF ~d.ok THEN [ok |-> FALSE, bytes |-> << >>]
      ELSE IF Len(d.bytes) # OID_BYTES THEN [ok |-> FALSE, bytes |-> << >>]
      ELSE [ok |-> TRUE, bytes |-> d.bytes]

\* is_valid_object_id without the crate's length check.
is_valid_object_id_any_hex(id) == hex_decode(id).ok

is_valid_object_id(id) == ObjectId_with_string(id).ok

----------------------------------------------------------------------------
(* HTTP responses: HttpResponse::Ok() and the others are builders that     *)
(* render as a status with an empty body; .json(x) adds the body.          *)

Ok == 200

BadRequest == 400

NotFound == 404

InternalServerError == 500

HttpResponse(status) == [status |-> status, body |-> None]

HttpResponseJson(status, x) == [status |-> status, body |-> Some(x)]

\* extract_id_from_req: the `id` of the request's match_info, when present
\* and a valid object id, as an owned String; BadRequest otherwise.
\* extract_id_from_req without the call of is_valid_object_id.
extract_id_from_req_unchecked(req) ==
  IF req.id = None THEN [ok |-> FALSE, id |-> << >>, err |-> HttpResponse(BadRequest)]
  ELSE [ok |-> TRUE, id |-> req.id[1], err |-> HttpResponse(BadRequest)]

extract_id_from_req(req) ==
  IF req.id # None
  THEN IF is_valid_object_id(req.id[1])
       THEN [ok |-> TRUE, id |-> req.id[1], err |-> HttpResponse(BadRequest)]
       ELSE [ok |-> FALSE, id |-> << >>, err |-> HttpResponse(BadRequest)]
  ELSE [ok |-> FALSE, id |-> << >>, err |-> HttpResponse(BadRequest)]

----------------------------------------------------------------------------
(* Inputs the transport can hand to the handlers.                          *)

Hello == <<"h", "e", "l", "l", "o">>

\* "5f7333360051027600b01a36", the id of tests::test_update_one_recipe.
OidA ==
  <<"5", "f", "7", "3", "3", "3", "3", "6", "0", "0", "5", "1",
    "0", "2", "7", "6", "0", "0", "b", "0", "1", "a", "3", "6">>

OidB == [OidA EXCEPT ![24] = "7"]

IdParams == {None, Some(Hello), Some(OidA), Some(OidB)}

Recipes == {"Spaghetti", "Lasagne"}

Batches == {<< >>, <<"Spaghetti", "Lasagne">>}

Pages == {None, Some(1)}

Sizes == {None, Some(1)}

\* The identifiers the store assigns to inserted records, in collection order.
StoreOrder == <<OidA, OidB>>

StoreIds == Range(StoreOrder)

----------------------------------------------------------------------------
(* crate::pagination::Pagination and crate::dao::Dao.  Every Dao method    *)
(* is the set of results one call may have: None (the store could not      *)
(* complete the operation, nothing written) or Some(..) with the store     *)
(* after the call.                                                         *)

is_fully_set(params) == params.page # None /\ params.size # None

is_fully_empty(params) == params.page = None /\ params.size = None

DaoFailure(d) == [out |-> None, db |-> d]

Lookup(d, id) == IF id \in DOMAIN d THEN d[id] ELSE None

Dao_get_one_recipe(d, id) ==
  {DaoFailure(d), [out |-> Some(Lookup(d, id)), db |-> d]}

Dao_update_one_recipe(d, id, recipe) ==
  {DaoFailure(d),
   IF Lookup(d, id) # None
   THEN [out |-> Some(Some("()")), db |-> [d EXCEPT ![id] = Some(recipe)]]
   ELSE [out |-> Some(None), db |-> d]}

Dao_delete_one_recipe(d, id) ==
  {DaoFailure(d),
   IF Lookup(d, id) # None
   THEN [out |-> Some(Some("()")), db |-> [d EXCEPT ![id] = None]]
   ELSE [out |-> Some(None), db |-> d]}

FreeIds(d) == {i \in StoreIds : d[i] = None}

\* insert_one: the record is stored under an identifier not in use, and that
\* identifier is the result.
Dao_add_one_recipe(d, recipe) ==
  {DaoFailure(d)} \cup
  {[out |-> Some(i), db |-> [d EXCEPT ![i] = Some(recipe)]] : i \in FreeIds(d)}

\* insert_many: one unused identifier per record, pairwise distinct; the
\* identifiers, in the order of the records, are the result.
Dao_add_many_recipes(d, recipes) ==
  {DaoFailure(d)} \cup
  {[out |-> Some(ids),
    db |-> [i \in StoreIds |->
              IF i \in Range(ids) THEN Some(recipes[IndexOf(ids, i)]) ELSE d[i]]] :
     ids \in {s \in [1..Len(recipes) -> FreeIds(d)] :
                \A j, k \in 1..Len(recipes) : s[j] = s[k] => j = k}}

RECURSIVE Stored(_, _)
Stored(d, order) ==
  IF order = << >> THEN << >>
  ELSE d[Head(order)] \o Stored(d, Tail(order))

Min(a, b) == IF a < b THEN a ELSE b

\* find: the whole collection, or with bounds the `size` records after the
\* first page * size.
Dao_get_many_recipes(d, pagination) ==
  LET all == Stored(d, StoreOrder)
  IN  {DaoFailure(d),
       [out |-> Some(IF pagination = None THEN all
                     ELSE LET skip == pagination[1].page[1] * pagination[1].size[1]
                          IN  SubSeq(all, skip + 1,
                                     Min(Len(all), skip + pagination[1].size[1]))),
        db |-> d]}

----------------------------------------------------------------------------
(* A request in flight: what the transport extracted for the handler (the  *)
(* `id` of the path, the query's page and size, the deserialized body),    *)
(* the handler's position, the Dao calls it has made so far, the results   *)
(* it got back and the response it returned.  The handlers keep nothing    *)
(* else: RecipeRoutes has no fields.                                       *)

Request(op, id, page, size, body) ==
  [op |-> op, id |-> id, page |-> page, size |-> size, body |-> body,
   pc |-> "start", calls |-> << >>, ret |-> << >>, resp |-> None]

Call(fn, id, recipes, pagination) ==
  [fn |-> fn, id |-> id, recipes |-> recipes, pagination |-> pagination]

\* The handler returns `response`.
Return(r, response) == [r EXCEPT !.pc = "done", !.resp = Some(response)]

\* The handler calls the Dao and is suspended at the .await.
Await(r, call) == [r EXCEPT !.pc = "awaiting", !.calls = Append(@, call)]

\* The Dao call of the suspended handler completes with `out`.
Resume(r, out) == [r EXCEPT !.ret = Append(@, out)]

Requests == BagToSet(inflight)

\* The transport hands a new request to its handler.
Accepting == BagCardinality(inflight) < MaxReq

Accept(r) == inflight' = inflight (+) SetToBag({r})

Step(r, r2) == inflight' = (inflight (-) SetToBag({r})) (+) SetToBag({r2})

Suspended(r, op) == r \in Requests /\ r.op = op /\ r.pc = "awaiting"

----------------------------------------------------------------------------
(* The handlers.  Each is one action up to its .await on the Dao and one   *)
(* action from the Dao's completion to the response.                       *)

\* The match on the Dao's Option<Option<_>>, lines 22-28; likewise below.
update_one_recipe_response(out) ==
  IF out # None
  THEN IF out[1] # None THEN HttpResponse(Ok) ELSE HttpResponse(NotFound)
  ELSE HttpResponse(InternalServerError)

update_one_recipe(id, recipe) ==
  LET r == Request("update_one", id, None, None, <<recipe>>)
      e == extract_id_from_req(r)
  IN  /\ Accepting
      /\ IF e.ok
         THEN Accept(Await(r, Call("update_one_recipe", Some(e.id), <<recipe>>, None)))
         ELSE Accept(Return(r, e.err))
      /\ UNCHANGED db

update_one_recipe_await(r) ==
  /\ Suspended(r, "update_one")
  /\ \E res \in Dao_update_one_recipe(db, r.calls[1].id[1], r.calls[1].recipes[1]) :
       /\ db' = res.db
       /\ Step(r, Return(Resume(r, res.out), update_one_recipe_response(res.out)))

add_one_recipe_response(out) ==
  IF out # None
  THEN HttpResponseJson(Ok, out[1])
  ELSE HttpResponse(InternalServerError)

add_one_recipe(recipe) ==
  LET r == Request("add_one", None, None, None, <<recipe>>)
  IN  /\ Accepting
      /\ Accept(Await(r, Call("add_one_recipe", None, <<recipe>>, None)))
      /\ UNCHANGED db

add_one_recipe_await(r) ==
  /\ Suspended(r, "add_one")
  /\ \E res \in Dao_add_one_recipe(db, r.calls[1].recipes[1]) :
       /\ db' = res.db
       /\ Step(r, Return(Resume(r, res.out), add_one_recipe_response(res.out)))

\* delete_one_recipe's match with the infrastructure failure answered as 404.
delete_one_recipe_response_conflating(out) ==
  IF out # None /\ out[1] # None THEN HttpResponse(Ok) ELSE HttpResponse(NotFound)

\* delete_one_recipe's match with the inner Option ignored.
delete_one_recipe_response_always_ok(out) ==
  IF out # None THEN HttpResponse(Ok) ELSE HttpResponse(InternalServerError)

delete_one_recipe_response(out) ==
  IF out # None
  THEN IF out[1] # None THEN HttpResponse(Ok) ELSE HttpResponse(NotFound)
  ELSE HttpResponse(InternalServerError)

delete_one_recipe(id) ==
  LET r == Request("delete_one", id, None, None, << >>)
      e == extract_id_from_req(r)
  IN  /\ Accepting
      /\ IF e.ok
         THEN Accept(Await(r, Call("delete_one_recipe", Some(e.id), << >>, None)))
         ELSE Accept(Return(r, e.err))
      /\ UNCHANGED db

\* delete_one_recipe completing only when it is the one request suspended on
\* its identifier.
delete_one_recipe_await_serialized(r) ==
  /\ Suspended(r, "delete_one")
  /\ \A q \in Requests : q.pc = "awaiting" /\ q.id = r.id => q = r /\ CopiesIn(r, inflight) = 1
  /\ \E res \in Dao_delete_one_recipe(db, r.calls[1].id[1]) :
       /\ db' = res.db
       /\ Step(r, Return(Resume(r, res.out), delete_one_recipe_response(res.out)))

delete_one_recipe_await(r) ==
  /\ Suspended(r, "delete_one")
  /\ \E res \in Dao_delete_one_recipe(db, r.calls[1].id[1]) :
       /\ db' = res.db
       /\ Step(r, Return(Resume(r, res.out), delete_one_recipe_response(res.out)))

add_many_recipes_response(out) ==
  IF out # None
  THEN HttpResponseJson(Ok, out[1])
  ELSE HttpResponse(InternalServerError)

add_many_recipes(recipes) ==
  LET r == Request("add_many", None, None, None, recipes)
  IN  /\ Accepting
      /\ Accept(Await(r, Call("add_many_recipes", None, recipes, None)))
      /\ UNCHANGED db

add_many_recipes_await(r) ==
  /\ Suspended(r, "add_many")
  /\ \E res \in Dao_add_many_recipes(db, r.calls[1].recipes) :
       /\ db' = res.db
       /\ Step(r, Return(Resume(r, res.out), add_many_recipes_response(res.out)))

\* get_one_recipe's match answering Ok without the record.
get_one_recipe_response_no_body(out) ==
  IF out # None
  THEN IF out[1] # None THEN HttpResponse(Ok) ELSE HttpResponse(NotFound)
  ELSE HttpResponse(InternalServerError)

get_one_recipe_response(out) ==
  IF out # None
  THEN IF out[1] # None THEN HttpResponseJson(Ok, out[1][1]) ELSE HttpResponse(NotFound)
  ELSE HttpResponse(InternalServerError)

get_one_recipe(id) ==
  LET r == Request("get_one", id, None, None, << >>)
      e == extract_id_from_req(r)
  IN  /\ Accepting
      /\ IF e.ok
         THEN Accept(Await(r, Call("get_one_recipe", Some(e.id), << >>, None)))
         ELSE Accept(Return(r, e.err))
      /\ UNCHANGED db

\* get_one_recipe calling the Dao a second time after a failure.
get_one_recipe_await_retrying(r) ==
  /\ Suspended(r, "get_one")
  /\ \E res \in Dao_get_one_recipe(db, r.calls[1].id[1]) :
       /\ db' = res.db
       /\ IF res.out = None /\ Len(r.calls) < 2
          THEN Step(r, Await(Resume(r, res.out), r.calls[1]))
          ELSE Step(r, Return(Resume(r, res.out), get_one_recipe_response(res.out)))

get_one_recipe_await(r) ==
  /\ Suspended(r, "get_one")
  /\ \E res \in Dao_get_one_recipe(db, r.calls[1].id[1]) :
       /\ db' = res.db
       /\ Step(r, Return(Resume(r, res.out), get_one_recipe_response(res.out)))

get_many_recipes_response(out) ==
  IF out # None
  THEN HttpResponseJson(Ok, out[1])
  ELSE HttpResponse(InternalServerError)

\* get_many_recipes substituting a default for a missing page or size.
get_many_recipes_defaulting(page, size) ==
  LET r == Request("get_many", None, page, size, << >>)
      params == [page |-> IF page = None THEN Some(0) ELSE page,
                 size |-> IF size = None THEN Some(1) ELSE size]
  IN  /\ Accepting
      /\ IF page = None /\ size = None
         THEN Accept(Await(r, Call("get_many_recipes", None, << >>, None)))
         ELSE Accept(Await(r, Call("get_many_recipes", None, << >>, Some(params))))
      /\ UNCHANGED db

\* get_many_recipes dropping the bounds it was given.
get_many_recipes_unbounded(page, size) ==
  LET r == Request("get_many", None, page, size, << >>)
      params == [page |-> page, size |-> size]
  IN  /\ Accepting
      /\ IF is_fully_set(params) \/ is_fully_empty(params)
         THEN Accept(Await(r, Call("get_many_recipes", None, << >>, None)))
         ELSE Accept(Return(r, HttpResponse(BadRequest)))
      /\ UNCHANGED db

get_many_recipes(page, size) ==
  LET r == Request("get_many", None, page, size, << >>)
      params == [page |-> page, size |-> size]
  IN  /\ Accepting
      /\ IF is_fully_set(params)
         THEN Accept(Await(r, Call("get_many_recipes", None, << >>, Some(params))))
         ELSE IF is_fully_empty(params)
         THEN Accept(Await(r, Call("get_many_recipes", None, << >>, None)))
         ELSE Accept(Return(r, HttpResponse(BadRequest)))
      /\ UNCHANGED db

get_many_recipes_await(r) ==
  /\ Suspended(r, "get_many")
  /\ \E res \in Dao_get_many_recipes(db, r.calls[1].pagination) :
       /\ db' = res.db
       /\ Step(r, Return(Resume(r, res.out), get_many_recipes_response(res.out)))

\* The transport has sent the response: nothing of the request is retained.
Respond(r) ==
  /\ r \in Requests
  /\ r.pc = "done"
  /\ inflight' = inflight (-) SetToBag({r})
  /\ UNCHANGED db

----------------------------------------------------------------------------

Init ==
  /\ inflight = EmptyBag
  /\ db = [i \in StoreIds |-> None]

Next ==
  \/ \E id \in IdParams, recipe \in Recipes : update_one_recipe(id, recipe)
  \/ \E recipe \in Recipes : add_one_recipe(recipe)
  \/ \E id \in IdParams : delete_one_recipe(id)
  \/ \E recipes \in Batches : add_many_recipes(recipes)
  \/ \E id \in IdParams : get_one_recipe(id)
  \/ \E page \in Pages, size \in Sizes : get_many_recipes(page, size)
  \/ \E r \in Requests : update_one_recipe_await(r)
  \/ \E r \in Requests : add_one_recipe_await(r)
  \/ \E r \in Requests : delete_one_recipe_await(r)
  \/ \E r \in Requests : add_many_recipes_await(r)
  \/ \E r \in Requests : get_one_recipe_await(r)
  \/ \E r \in Requests : get_many_recipes_await(r)
  \/ \E r \in Requests : Respond(r)

Spec == Init /\ [][Next]_vars

----------------------------------------------------------------------------
(* The identifier validation alone, over every `id` segment of the shape   *)
(* c..c d c..c up to MaxIdLen characters: one request at a time, through   *)
(* the three handlers that take an `id`.                                   *)

FillChars == {"0", "a", "F"}

\* Hex digits of both cases and the characters next to their ASCII ranges.
ProbeChars == {"0", "9", "a", "f", "A", "F", "/", ":", "@", "G", "g", "-", "z"}

IdInputs ==
  IdParams \cup {Some(<< >>)} \cup
  {Some([Str(c, n) EXCEPT ![p] = d]) :
     <<n, p, c, d>> \in {t \in (1..MaxIdLen) \X (1..MaxIdLen) \X FillChars \X ProbeChars :
                          t[2] <= t[1]}}

NextId ==
  \/ inflight = EmptyBag /\ \E id \in IdInputs : get_one_recipe(id)
  \/ inflight = EmptyBag /\ \E id \in IdInputs : delete_one_recipe(id)
  \/ inflight = EmptyBag /\ \E id \in IdInputs : update_one_recipe(id, "Spaghetti")
  \/ \E r \in Requests : get_one_recipe_await(r)
  \/ \E r \in Requests : delete_one_recipe_await(r)
  \/ \E r \in Requests : update_one_recipe_await(r)
  \/ \E r \in Requests : Respond(r)

SpecId == Init /\ [][NextId]_vars

----------------------------------------------------------------------------
(* Vocabulary of the properties.                                           *)

HexAlphabet ==
  {"0", "1", "2", "3", "4", "5", "6", "7", "8", "9",
   "a", "b", "c", "d", "e", "f", "A", "B", "C", "D", "E", "F"}

\* s consists of exactly 24 hexadecimal characters.
IsObjectIdString(s) == Len(s) = 24 /\ \A i \in 1..Len(s) : s[i] \in HexAlphabet

IdOps == {"get_one", "update_one", "delete_one"}

HasValidId(r) == r.id # None /\ IsObjectIdString(r.id[1])

PartiallySet(r) == (r.page = None) # (r.size = None)

\* The request passes the validation of its operation.
PassesValidation(r) ==
  IF r.op \in IdOps THEN HasValidId(r)
  ELSE IF r.op = "get_many" THEN ~PartiallySet(r)
  ELSE TRUE

Status(r) == r.resp[1].status

RequestsNext == BagToSet(inflight')

\* This step is the completion of the Dao call of r, which leaves it as r2.
Completes(r, r2) ==
  /\ r \in Requests
  /\ r.pc = "awaiting"
  /\ r2 \in RequestsNext
  /\ r2.pc = "done"
  /\ Len(r2.ret) = Len(r.ret) + 1
  /\ [r2 EXCEPT !.pc = r.pc, !.ret = r.ret, !.resp = r.resp] = r
  /\ CopiesIn(r, inflight') < CopiesIn(r, inflight)
  /\ CopiesIn(r2, inflight') > CopiesIn(r2, inflight)

\* The Dao's result in that completion.
Outcome(r2) == r2.ret[Len(r2.ret)]

----------------------------------------------------------------------------
(* C1. In get-one, update-one and delete-one a request whose `id` is       *)
(* absent or is not a valid object identifier is answered 400 without any  *)
(* Dao call, and every identifier that was passed to the Dao is a valid    *)
(* object identifier.                                                      *)
C1_UnvalidatedIdNeverReachesStorage ==
  \A r \in Requests :
    /\ (r.op \in IdOps /\ ~HasValidId(r)) =>
         /\ r.pc = "done"
         /\ Status(r) = BadRequest
         /\ r.calls = << >>
    /\ \A k \in 1..Len(r.calls) :
         r.calls[k].id # None => IsObjectIdString(r.calls[k].id[1])

C1_Witness ==
  /\ \E r \in Requests : r.op \in IdOps /\ r.id = Some(Hello) /\ r.pc = "done"
  /\ \E r \in Requests : r.op \in IdOps /\ r.id = None /\ r.pc = "done"

(* C2. In get-many a request with exactly one of page and size is answered *)
(* 400 and the Dao's list operation is not called for it, with or without  *)
(* a default for the missing parameter.                                    *)
C2_PartialPaginationRejected ==
  \A r \in Requests :
    (r.op = "get_many" /\ PartiallySet(r)) =>
      /\ r.pc = "done"
      /\ Status(r) = BadRequest
      /\ r.calls = << >>

C2_Witness ==
  /\ \E r \in Requests : r.op = "get_many" /\ r.page = Some(1) /\ r.size = None
  /\ \E r \in Requests : r.op = "get_many" /\ r.page = None /\ r.size = Some(1)

(* C3. In get-one, update-one and delete-one with a valid identifier the   *)
(* response follows the Dao's result alone: 500 iff it is None, 404 iff it *)
(* is Some(None), 200 iff it is Some(Some(_)).                             *)
C3_ResponseFollowsStorageOutcome ==
  \A r \in Requests :
    (r.op \in IdOps /\ HasValidId(r) /\ r.pc = "done") =>
      /\ Len(r.ret) = 1
      /\ (Status(r) = InternalServerError) <=> (r.ret[1] = None)
      /\ (Status(r) = NotFound) <=> (r.ret[1] = Some(None))
      /\ (Status(r) = Ok) <=> (r.ret[1] # None /\ r.ret[1] # Some(None))

C3_Witness ==
  /\ \E r \in Requests : r.op = "update_one" /\ r.pc = "done" /\ r.ret = <<Some(Some("()"))>>
  /\ \E r \in Requests : r.op = "get_one" /\ r.pc = "done" /\ r.ret = <<None>>

(* C4. The identifier validation accepts a string iff it consists of      *)
(* exactly 24 hexadecimal characters; a string it rejects is answered 400  *)
(* as malformed, and the identifier handed to the Dao call is the          *)
(* accepted string itself, unchanged.                                      *)
C4_AcceptsExactly24HexUnchanged ==
  \A r \in Requests :
    (r.op \in IdOps /\ r.id # None) =>
      /\ IsObjectIdString(r.id[1]) <=> (r.calls # << >>)
      /\ ~IsObjectIdString(r.id[1]) => (r.pc = "done" /\ Status(r) = BadRequest)
      /\ r.calls # << >> => r.calls[1].id = r.id

\* An accepted identifier with an upper-case digit has reached the Dao.
C4_Witness ==
  \E r \in Requests :
    /\ r.op \in IdOps
    /\ r.id = Some([Str("a", 24) EXCEPT ![7] = "F"])
    /\ r.pc = "done"
    /\ r.calls # << >>

(* C5. Once a delete-one(id) has responded Ok, a further delete-one(id)    *)
(* responds NotFound as long as the record was not created again and the   *)
(* Dao does not fail.  Stated on the steps: a delete-one that responds Ok  *)
(* leaves the record absent; an absent record becomes present only when    *)
(* an add-one or add-many completes with its identifier; and a delete-one  *)
(* completing without failure on an absent record responds NotFound.       *)
C5_DeleteCompletion ==
  \A r \in Requests, r2 \in RequestsNext :
    (r.op = "delete_one" /\ Completes(r, r2)) =>
      /\ Status(r2) = Ok => Lookup(db', r.calls[1].id[1]) = None
      /\ (Lookup(db, r.calls[1].id[1]) = None /\ Outcome(r2) # None) =>
           Status(r2) = NotFound

C5_OnlyCreationMakesPresent ==
  \A i \in StoreIds :
    (db[i] = None /\ db'[i] # None) =>
      \E r \in Requests, r2 \in RequestsNext :
        /\ Completes(r, r2)
        /\ Outcome(r2) # None
        /\ \/ r.op = "add_one" /\ Outcome(r2)[1] = i
           \/ r.op = "add_many" /\ i \in Range(Outcome(r2)[1])

C5_RepeatedDeleteNotFound ==
  [][C5_DeleteCompletion /\ C5_OnlyCreationMakesPresent]_vars

\* A delete-one answered Ok and a delete-one of the same identifier
\* answered NotFound, the record being absent.
C5_Witness ==
  \E r \in Requests, q \in Requests :
    /\ r.op = "delete_one" /\ r.pc = "done" /\ Status(r) = Ok
    /\ q.op = "delete_one" /\ q.pc = "done" /\ Status(q) = NotFound
    /\ q.id = r.id
    /\ db[r.id[1]] = None

(* C6. When the Dao stores the payload of an add-one, add-one responds Ok  *)
(* with the identifier the Dao assigned, and a get-one of that identifier  *)
(* responds Ok with the payload as long as no update or delete of the      *)
(* record intervened and the Dao does not fail.  Stated on the steps: an   *)
(* add-one completing without failure responds Ok with the assigned        *)
(* identifier, under which the payload is then stored; a stored record     *)
(* changes only when an update-one or delete-one of its identifier         *)
(* completes; and a get-one completing without failure on a stored record  *)
(* responds Ok with that record.                                           *)
C6_AddOneCompletion ==
  \A r \in Requests, r2 \in RequestsNext :
    (r.op = "add_one" /\ Completes(r, r2) /\ Outcome(r2) # None) =>
      /\ r2.resp = Some(HttpResponseJson(Ok, Outcome(r2)[1]))
      /\ Lookup(db, Outcome(r2)[1]) = None
      /\ Lookup(db', Outcome(r2)[1]) = Some(r.body[1])

C6_GetOneCompletion ==
  \A r \in Requests, r2 \in RequestsNext :
    (/\ r.op = "get_one"
     /\ Completes(r, r2)
     /\ Outcome(r2) # None
     /\ Lookup(db, r.calls[1].id[1]) # None) =>
      r2.resp = Some(HttpResponseJson(Ok, Lookup(db, r.calls[1].id[1])[1]))

C6_OnlyUpdateOrDeleteChanges ==
  \A i \in StoreIds :
    (db[i] # None /\ db'[i] # db[i]) =>
      \E r \in Requests, r2 \in RequestsNext :
        /\ Completes(r, r2)
        /\ r.op \in {"update_one", "delete_one"}
        /\ r.id = Some(i)
        /\ Outcome(r2) = Some(Some("()"))

C6_AddThenGetRoundTrip ==
  [][C6_AddOneCompletion /\ C6_GetOneCompletion /\ C6_OnlyUpdateOrDeleteChanges]_vars

\* An add-one answered Ok with an identifier, and a get-one of that
\* identifier answered Ok with the payload of the add-one.
C6_Witness ==
  \E r \in Requests, q \in Requests :
    /\ r.op = "add_one" /\ r.pc = "done" /\ Status(r) = Ok
    /\ r.body = <<"Lasagne">>
    /\ q.op = "get_one" /\ q.pc = "done" /\ q.id = r.resp[1].body
    /\ q.resp = Some(HttpResponseJson(Ok, "Lasagne"))

(* C7. The Dao's insert-many is never called with an empty sequence, and  *)
(* an add-many request has one aggregate outcome: Ok with the insertion    *)
(* result, or 500 when the Dao fails.                                      *)
C7_AddManyNeverEmpty ==
  \A r \in Requests :
    r.op = "add_many" =>
      /\ \A k \in 1..Len(r.calls) : r.calls[k].recipes # << >>
      /\ r.pc = "done" =>
           /\ Len(r.ret) = 1
           /\ r.resp = Some(IF r.ret[1] # None
                            THEN HttpResponseJson(Ok, r.ret[1][1])
                            ELSE HttpResponse(InternalServerError))

(* C8. In get-many the Dao's list call follows the pagination class: with  *)
(* page and size both present it is called once with exactly those bounds, *)
(* with both absent once without bounds, and a result other than a failure *)
(* is echoed as Ok; without bounds on an empty collection that is Ok with  *)
(* the empty sequence.                                                     *)
C8_CallFollowsClass ==
  \A r \in Requests :
    r.op = "get_many" =>
      /\ (r.page # None /\ r.size # None) =>
           r.calls = <<Call("get_many_recipes", None, << >>,
                            Some([page |-> r.page, size |-> r.size]))>>
      /\ (r.page = None /\ r.size = None) =>
           r.calls = <<Call("get_many_recipes", None, << >>, None)>>
      /\ (r.pc = "done" /\ r.calls # << >>) =>
           /\ Len(r.ret) = 1
           /\ r.ret[1] # None => r.resp = Some(HttpResponseJson(Ok, r.ret[1][1]))

C8_EmptyCollection ==
  \A r \in Requests, r2 \in RequestsNext :
    (/\ r.op = "get_many"
     /\ Completes(r, r2)
     /\ r.calls[1].pagination = None
     /\ Outcome(r2) # None
     /\ \A i \in StoreIds : db[i] = None) =>
      r2.resp = Some(HttpResponseJson(Ok, << >>))

C8_ListFollowsPaginationClass == []C8_CallFollowsClass /\ [][C8_EmptyCollection]_vars

\* A bounded list answered with the second record alone, and an unbounded
\* list of the whole collection.
C8_Witness ==
  /\ \E r \in Requests :
       /\ r.op = "get_many" /\ r.page = Some(1) /\ r.size = Some(1)
       /\ r.resp = Some(HttpResponseJson(Ok, <<"Lasagne">>))
  /\ \E r \in Requests :
       /\ r.op = "get_many" /\ r.page = None /\ r.size = None
       /\ r.resp = Some(HttpResponseJson(Ok, <<"Spaghetti", "Lasagne">>))

(* C9. Every request runs validate, call the Dao, mediate, respond: one    *)
(* that passes validation calls the Dao exactly once, one that fails calls *)
(* it never, the response exists only once the Dao's result is there, and  *)
(* a failure or an absent record is answered without a second call.        *)
C9_PipelineCallsStorageOnce ==
  \A r \in Requests :
    /\ Len(r.calls) <= 1
    /\ Len(r.ret) <= Len(r.calls)
    /\ (r.resp # None) <=> (r.pc = "done")
    /\ r.pc = "awaiting" => (PassesValidation(r) /\ Len(r.calls) = 1 /\ r.ret = << >>)
    /\ r.pc = "done" =>
         IF PassesValidation(r)
         THEN /\ Len(r.calls) = 1
              /\ Len(r.ret) = 1
              /\ r.ret[1] = None => Status(r) = InternalServerError
              /\ (r.op \in IdOps /\ r.ret[1] = Some(None)) => Status(r) = NotFound
         ELSE /\ r.calls = << >>
              /\ r.ret = << >>
              /\ Status(r) = BadRequest

\* A request rejected by validation beside one answered 500 after its one
\* Dao call failed.
C9_Witness ==
  /\ \E r \in Requests : r.pc = "done" /\ ~PassesValidation(r)
  /\ \E r \in Requests :
       /\ r.pc = "done" /\ r.op = "get_one" /\ r.ret = <<None>>
       /\ Len(r.calls) = 1 /\ Status(r) = InternalServerError

(* C10. The handlers share no state: requests with the same inputs make    *)
(* the same Dao call and, given the same Dao result, the same response,    *)
(* whatever else is in flight; and no request waits for another: a         *)
(* suspended request can always complete, and while the transport accepts  *)
(* requests the inputs of a request in flight are accepted again.          *)
SameInputs(r, q) ==
  /\ r.op = q.op
  /\ r.id = q.id
  /\ r.page = q.page
  /\ r.size = q.size
  /\ r.body = q.body

Completion(r) ==
  \/ update_one_recipe_await(r)
  \/ add_one_recipe_await(r)
  \/ delete_one_recipe_await(r)
  \/ add_many_recipes_await(r)
  \/ get_one_recipe_await(r)
  \/ get_many_recipes_await(r)

Again(r) ==
  \/ r.op = "update_one" /\ update_one_recipe(r.id, r.body[1])
  \/ r.op = "add_one" /\ add_one_recipe(r.body[1])
  \/ r.op = "delete_one" /\ delete_one_recipe(r.id)
  \/ r.op = "add_many" /\ add_many_recipes(r.body)
  \/ r.op = "get_one" /\ get_one_recipe(r.id)
  \/ r.op = "get_many" /\ get_many_recipes(r.page, r.size)

C10_RequestsIndependent ==
  /\ \A r \in Requests, q \in Requests :
       SameInputs(r, q) =>
         /\ r.calls = q.calls
         /\ (r.pc = "done" /\ q.pc = "done" /\ r.ret = q.ret) => r.resp = q.resp
  /\ \A r \in Requests :
       /\ r.pc = "awaiting" => ENABLED Completion(r)
       /\ Accepting => ENABLED Again(r)

\* Two delete-one requests of the same identifier suspended on the Dao at
\* the same time.
C10_Witness ==
  \E r \in Requests :
    /\ r.op = "delete_one"
    /\ r.pc = "awaiting"
    /\ CopiesIn(r, inflight) = 2

====
